---- MODULE Spec2Model ----
(***************************************************************************)
(* q2-feature-classifier, q2_feature_classifier/classifier.py.             *)
(*                                                                         *)
(* Two machines share this module:                                         *)
(*   - the Classify Orchestrator with its Orientation Detector             *)
(*     (classify_sklearn, _autodetect_orientation), driving the predict    *)
(*     contract chunk by chunk (specifications Spec and SpecChunk);        *)
(*   - the Spec Codec, Class Resolver and Signature Deriver                *)
(*     (spec_from_pipeline, pipeline_from_spec, _load_class,               *)
(*     _pipeline_signature, generic_fitter; specification SpecCodec).      *)
(***************************************************************************)
EXTENDS Integers, Sequences, FiniteSets, TLC

VARIABLES
    \* ---- classify_sklearn: arguments
    reads,              \* the read source: a forward-only sequence of records
    classifier,         \* the fitted classifier: sequence -> prediction
    n,                  \* _autodetect_orientation's sample size
    read_orientation,   \* "unset" (None) | "same" | "reverse-complement"
    chunk_size, n_jobs, confidence,
    \* ---- classify_sklearn: execution state
    pc,                 \* "start" | "predicting" | "done" | "failed"
    pulls,              \* indices of the source records pulled so far, in order
    buffered,           \* oriented reads held in memory, not yet predicted
    flip,               \* the lazy remainder is reverse-complemented
    trials,             \* predict calls made by the detector
    chunks,             \* chunks handed to the predict contract, in dispatch order
    results,            \* chunk index -> rows, for the chunks that completed
    completed,          \* chunk indices in completion order
    result,             \* the final table: rows in output order
    error,
    \* ---- codec / resolver / signature deriver
    cspec,              \* the PipelineSpec under test
    cstage,             \* position in the codec scenario
    pipe_one, spec_one, pipe_two, spec_two,
    generic_pipe, specific_pipe, signature

classify_vars == <<reads, classifier, n, read_orientation, chunk_size, n_jobs,
                   confidence, pc, pulls, buffered, flip, trials, chunks,
                   results, completed, result, error>>
codec_vars == <<cspec, cstage, pipe_one, spec_one, pipe_two, spec_two,
                generic_pipe, specific_pipe, signature>>
vars == <<classify_vars, codec_vars>>

\* ------------------------------------------------------------------ bounds
MaxReads == 3       \* longest read stream
MaxN == 2           \* largest sample size n tried (the code's default is 100)
MaxChunk == 2       \* largest chunk_size
MaxJobs == 2        \* largest n_jobs
Scale == 2          \* confidences are c / Scale for c in 0..Scale

\* ------------------------------------------------------------ small helpers
Range(s) == {s[i] : i \in 1..Len(s)}
Min(a, b) == IF a <= b THEN a ELSE b
Last(s) == s[Len(s)]
Take(s, k) == SubSeq(s, 1, Min(k, Len(s)))
Drop(s, k) == SubSeq(s, Min(k, Len(s)) + 1, Len(s))
SeqsUpTo(S, k) == UNION {[1..m -> S] : m \in 0..k}
RECURSIVE Flatten(_)
Flatten(ss) == IF ss = <<>> THEN <<>> ELSE Head(ss) \o Flatten(Tail(ss))

\* --------------------------------------------------------- the reads source
\* A read record: a stable identifier and its sequence data.
Complement(b) ==
    CASE b = "A" -> "T" [] b = "T" -> "A" [] b = "C" -> "G" [] b = "G" -> "C"
Reverse(s) == [i \in 1..Len(s) |-> s[Len(s) + 1 - i]]
\* skbio's DNA.reverse_complement: a new record, same identifier.
reverse_complement(r) ==
    [id |-> r.id, seq |-> [i \in 1..Len(r.seq) |-> Complement(Reverse(r.seq)[i])]]
ReverseAll(rs) == [i \in 1..Len(rs) |-> reverse_complement(rs[i])]

Sequences_ == {<<"A", "C">>, <<"G", "T">>}
ReadStreams ==
    {[i \in 1..Len(ss) |-> [id |-> i, seq |-> ss[i]]] : ss \in SeqsUpTo(Sequences_, MaxReads)}

\* ------------------------------------------------- the predict contract
\* A fitted classifier gives each sequence a lineage (ranks, most general
\* first) and the running confidence of each rank, which never grows with
\* depth.
Ranks == <<"kingdom", "species">>
NumRanks == Len(Ranks)
Lineage(s) ==
    [i \in 1..NumRanks |->
        IF i < NumRanks THEN "k" ELSE IF s = <<"A", "C">> THEN "a" ELSE "b"]
RunningConfs ==
    {c \in [1..NumRanks -> 0..Scale] : \A i \in 1..(NumRanks - 1) : c[i] >= c[i + 1]}
Classifiers ==
    {[s \in Sequences_ |-> [taxon |-> Lineage(s), conf |-> f[s]]] :
        f \in [Sequences_ -> RunningConfs]}

Unassigned == <<"Unassigned">>
Sentinel == 0 - Scale       \* the confidence reported when none is computed (-1)

\* The deepest rank whose running confidence is still >= t (0: none).
RECURSIVE Depth(_, _, _)
Depth(conf, t, i) ==
    IF i > Len(conf) \/ conf[i] < t THEN i - 1 ELSE Depth(conf, t, i + 1)

\* One read's row under threshold c: -1 disables confidence, 0 computes it
\* without truncating, c > 0 truncates the lineage.
predict_read(clf, r, c) ==
    LET p == clf[r.seq]
        d == Depth(p.conf, c, 1)
    IN  IF c < 0 THEN [id |-> r.id, taxon |-> p.taxon, conf |-> Sentinel]
        ELSE IF c = 0 THEN [id |-> r.id, taxon |-> p.taxon, conf |-> Last(p.conf)]
        ELSE IF d = 0 THEN [id |-> r.id, taxon |-> Unassigned, conf |-> Scale - p.conf[1]]
        ELSE [id |-> r.id, taxon |-> Take(p.taxon, d), conf |-> p.conf[d]]

\* One chunk's predict invocation: pure given its inputs.
predict_chunk(clf, chunk, c) == [i \in 1..Len(chunk) |-> predict_read(clf, chunk[i], c)]

\* pre_dispatch = '2*n_jobs': chunks in flight at once.
PreDispatch(jobs) == 2 * jobs

\* --------------------------------------------------- _autodetect_orientation
\* numpy.median, doubled: the middle element, or the sum of the two middle ones.
KthSmallest(ds, k) ==
    CHOOSE v \in Range(ds) :
        /\ Cardinality({i \in 1..Len(ds) : ds[i] < v}) < k
        /\ k <= Cardinality({i \in 1..Len(ds) : ds[i] <= v})
Median2(ds) ==
    IF Len(ds) % 2 = 1 THEN 2 * KthSmallest(ds, (Len(ds) + 1) \div 2)
    ELSE KthSmallest(ds, Len(ds) \div 2) + KthSmallest(ds, Len(ds) \div 2 + 1)

\* A trial prediction: predict(first_n_reads, classifier, confidence=0.)
TrialCall(rs) == [reads |-> rs, confidence |-> 0]
Confidences(clf, call) ==
    [i \in 1..Len(call.reads) |-> predict_read(clf, call.reads[i], call.confidence).conf]

\* median(array(same_confidence) - array(reverse_confidence)), doubled
ConfidenceMedian2(clf, first_n_reads) ==
    LET same == Confidences(clf, TrialCall(first_n_reads))
        rev == Confidences(clf, TrialCall(ReverseAll(first_n_reads)))
    IN  Median2([i \in 1..Len(first_n_reads) |-> same[i] - rev[i]])

KeepsOrientation_OnTie(m2) == m2 >= 0
KeepsOrientation(m2) == m2 > 0

\* Faulty variants of the detector, each a plausible slip in its code.
\* (1) the emptiness test comes after the trial predictions;
autodetect_LateEmptyCheck(rs, clf, n0, orientation) ==
    [error |-> IF rs = <<>> THEN "empty reads input" ELSE "",
     pulls |-> [i \in 1..Min(n0, Len(rs)) |-> i],
     buffered |-> Take(rs, n0), flip |-> FALSE,
     trials |-> IF orientation = "unset"
                THEN <<TrialCall(Take(rs, n0)), TrialCall(ReverseAll(Take(rs, n0)))>>
                ELSE <<>>]
\* (2) the record pulled for the emptiness test is not chained back;
autodetect_DropsFirst(rs, clf, n0, orientation) ==
    [error |-> IF rs = <<>> THEN "empty reads input" ELSE "",
     pulls |-> IF rs = <<>> THEN <<>> ELSE <<1>>,
     buffered |-> <<>>, flip |-> orientation = "reverse-complement",
     trials |-> <<>>]
\* (3) the remainder of the stream is left as it came.
autodetect_KeepsRemainder(rs, clf, n0, orientation) ==
    IF rs = <<>> THEN
        [error |-> "empty reads input", pulls |-> <<>>, buffered |-> <<>>,
         flip |-> FALSE, trials |-> <<>>]
    ELSE
        LET first_n_reads == Take(rs, n0)
            keep == ConfidenceMedian2(clf, first_n_reads) > 0
        IN  [error |-> "", pulls |-> [i \in 1..Len(first_n_reads) |-> i],
             buffered |-> IF keep THEN first_n_reads ELSE ReverseAll(first_n_reads),
             flip |-> FALSE,
             trials |-> <<TrialCall(first_n_reads), TrialCall(ReverseAll(first_n_reads))>>]

\* The detector as a whole. It returns the records it pulled (pulls), the
\* oriented reads it holds in memory (buffered), whether the lazy remainder
\* is reverse-complemented (flip) and the trial predictions it made.
autodetect_orientation(rs, clf, n0, orientation) ==
    IF rs = <<>> THEN
        [error |-> "empty reads input", pulls |-> <<>>, buffered |-> <<>>,
         flip |-> FALSE, trials |-> <<>>]
    ELSE IF orientation = "same" THEN
        [error |-> "", pulls |-> <<1>>, buffered |-> <<rs[1]>>,
         flip |-> FALSE, trials |-> <<>>]
    ELSE IF orientation = "reverse-complement" THEN
        [error |-> "", pulls |-> <<1>>, buffered |-> <<reverse_complement(rs[1])>>,
         flip |-> TRUE, trials |-> <<>>]
    ELSE
        LET first_n_reads == Take(rs, n0)
            reversed_n_reads == ReverseAll(first_n_reads)
            calls == <<TrialCall(first_n_reads), TrialCall(reversed_n_reads)>>
            taken == [i \in 1..Len(first_n_reads) |-> i]
        IN  IF KeepsOrientation(ConfidenceMedian2(clf, first_n_reads)) THEN
                [error |-> "", pulls |-> taken, buffered |-> first_n_reads,
                 flip |-> FALSE, trials |-> calls]
            ELSE
                [error |-> "", pulls |-> taken, buffered |-> reversed_n_reads,
                 flip |-> TRUE, trials |-> calls]

\* ------------------------------------------------------------ classify_sklearn
\* classify_sklearn's call of the detector: n is left at its default.
detector_call_ChunkSized(rs, clf, n0, size, orientation) ==
    autodetect_orientation(rs, clf, size, orientation)
detector_call(rs, clf, n0, size, orientation) ==
    autodetect_orientation(rs, clf, n0, orientation)

\* classify_sklearn's call of predict: the caller's threshold is passed on.
main_confidence_NoThreshold(c) == 0
main_confidence(c) == c

CodecIdle ==
    /\ cspec = <<>> /\ cstage = "idle"
    /\ pipe_one = <<>> /\ spec_one = <<>> /\ pipe_two = <<>> /\ spec_two = <<>>
    /\ generic_pipe = <<>> /\ specific_pipe = <<>> /\ signature = <<>>

ClassifyStart ==
    /\ pc = "start" /\ pulls = <<>> /\ buffered = <<>> /\ flip = FALSE
    /\ trials = <<>> /\ chunks = <<>> /\ results = <<>> /\ completed = <<>>
    /\ result = <<>> /\ error = ""

Orientations == {"unset", "same", "reverse-complement"}
Thresholds == {Sentinel} \cup (0..Scale)

\* Lines 148-149: orient the stream, or fail on an empty one.
Orient ==
    /\ pc = "start"
    /\ LET d == detector_call(reads, classifier, n, chunk_size, read_orientation)
       IN  /\ error' = d.error
           /\ pc' = IF d.error = "" THEN "predicting" ELSE "failed"
           /\ pulls' = d.pulls
           /\ buffered' = d.buffered
           /\ flip' = d.flip
           /\ trials' = d.trials
    /\ UNCHANGED <<reads, classifier, n, read_orientation, chunk_size, n_jobs,
                   confidence, chunks, results, completed, result, codec_vars>>

\* predict's main pass: the next chunk is cut from the oriented stream (the
\* buffered prefix first, then records pulled from the source) and handed out.
InFlight == {i \in 1..Len(chunks) : i \notin DOMAIN results}
Exhausted == buffered = <<>> /\ Len(pulls) = Len(reads)
Orient1(r) == IF flip THEN reverse_complement(r) ELSE r
Dispatch ==
    /\ pc = "predicting"
    /\ ~Exhausted
    /\ Cardinality(InFlight) < PreDispatch(n_jobs)
    /\ LET fromBuffer == Min(chunk_size, Len(buffered))
           fromSource == Min(chunk_size - fromBuffer, Len(reads) - Len(pulls))
           pulled == [i \in 1..fromSource |-> Len(pulls) + i]
           chunk == Take(buffered, fromBuffer)
                        \o [i \in 1..fromSource |-> Orient1(reads[pulled[i]])]
       IN  /\ chunks' = Append(chunks, chunk)
           /\ buffered' = Drop(buffered, fromBuffer)
           /\ pulls' = pulls \o pulled
    /\ UNCHANGED <<reads, classifier, n, read_orientation, chunk_size, n_jobs,
                   confidence, pc, flip, trials, results, completed, result,
                   error, codec_vars>>

\* A worker finishes a chunk; chunks in flight finish in any order.
Complete(i) ==
    /\ pc = "predicting"
    /\ i \in InFlight
    /\ results' = [k \in DOMAIN results \cup {i} |->
                      IF k = i THEN predict_chunk(classifier, chunks[i],
                                                  main_confidence(confidence))
                      ELSE results[k]]
    /\ completed' = Append(completed, i)
    /\ UNCHANGED <<reads, classifier, n, read_orientation, chunk_size, n_jobs,
                   confidence, pc, pulls, buffered, flip, trials, chunks,
                   result, error, codec_vars>>

\* The results are read back in chunk order; lines 153-157 build the table.
gather(res, count) == Flatten([i \in 1..count |-> res[i]])
Gather ==
    /\ pc = "predicting"
    /\ Exhausted
    /\ InFlight = {}
    /\ result' = gather(results, Len(chunks))
    /\ pc' = "done"
    /\ UNCHANGED <<reads, classifier, n, read_orientation, chunk_size, n_jobs,
                   confidence, pulls, buffered, flip, trials, chunks, results,
                   completed, error, codec_vars>>

ClassifyNext ==
    \/ Orient
    \/ Dispatch
    \/ \E i \in 1..MaxReads : Complete(i)
    \/ Gather

\* Every stream, classifier, sample size and orientation setting, with the
\* confidence computation disabled or at the highest threshold; one chunking.
Init ==
    /\ reads \in ReadStreams
    /\ classifier \in Classifiers
    /\ n \in 1..MaxN
    /\ read_orientation \in Orientations
    /\ chunk_size = MaxChunk /\ n_jobs = 1
    /\ confidence \in {Sentinel, Scale}
    /\ ClassifyStart
    /\ CodecIdle

Spec == Init /\ [][ClassifyNext]_vars

\* Every stream, classifier, threshold and chunk size, one worker or many;
\* auto-detected orientation on a sample of one read.
InitChunk ==
    /\ reads \in ReadStreams
    /\ classifier \in Classifiers
    /\ n = 1
    /\ read_orientation = "unset"
    /\ chunk_size \in 1..MaxChunk /\ n_jobs \in {1, MaxJobs}
    /\ confidence \in Thresholds
    /\ ClassifyStart
    /\ CodecIdle

SpecChunk == InitChunk /\ [][ClassifyNext]_vars

\* ---------------------------------------------------- classification claims
\* The oriented stream as a whole, and the table a single unchunked,
\* sequential pass over it yields.
oriented_stream(rs, clf, n0, orientation) ==
    LET d == autodetect_orientation(rs, clf, n0, orientation)
        rest == Drop(rs, Len(d.pulls))
    IN  d.buffered \o (IF d.flip THEN ReverseAll(rest) ELSE rest)
classify_reference(rs, clf, n0, orientation, c) ==
    predict_chunk(clf, oriented_stream(rs, clf, n0, orientation), c)
Ids(rows) == [i \in 1..Len(rows) |-> rows[i].id]
Labels(rows) == [i \in 1..Len(rows) |-> [id |-> rows[i].id, taxon |-> rows[i].taxon]]
SampleMedian2 == ConfidenceMedian2(classifier, Take(reads, n))
Predicted == Flatten(chunks)

\* C3: classifying an empty read stream fails with 'empty reads input' and no
\* call of the predict contract (trial or chunk) has been made, whatever
\* read_orientation is.
C3_EmptyInputFailsFirst ==
    (reads = <<>> /\ pc # "start") =>
        /\ pc = "failed" /\ error = "empty reads input"
        /\ trials = <<>> /\ chunks = <<>> /\ result = <<>>
C3_Witness == reads = <<>> /\ pc = "failed" /\ read_orientation = "unset"

\* C4 as stated: with auto-detection, a read set and its reverse-complemented
\* counterpart get the same label for every identifier, ties included.
C4_Original ==
    (pc = "done" /\ read_orientation = "unset") =>
        Labels(result) =
            Labels(classify_reference(ReverseAll(reads), classifier, n, "unset", confidence))
\* C4 amended: the same, provided the median confidence difference over the
\* sampled prefix is not zero.
C4_OrientationInvariance ==
    (pc = "done" /\ read_orientation = "unset" /\ SampleMedian2 # 0) =>
        Labels(result) =
            Labels(classify_reference(ReverseAll(reads), classifier, n, "unset", confidence))
C4_Witness ==
    /\ pc = "done" /\ read_orientation = "unset" /\ SampleMedian2 < 0
    /\ Len(reads) > n
    /\ \E i \in 1..Len(reads) : reads[i].seq # reads[1].seq

\* C5: the table does not depend on chunk_size, n_jobs or the order in which
\* chunks complete: it is the table of one sequential pass over the whole
\* oriented stream, rows in input read order.
C5_ChunkingInvariance ==
    pc = "done" =>
        /\ result = classify_reference(reads, classifier, n, read_orientation, confidence)
        /\ Ids(result) = Ids(reads)
C5_Witness ==
    /\ pc = "done" /\ Len(chunks) >= 2 /\ chunk_size < Len(reads)
    /\ \E i \in 1..(Len(completed) - 1) : completed[i] > completed[i + 1]

\* C7: the detector pulls each source record at most once and at most n of
\* them before it returns; the oriented stream replays the pulled prefix and
\* continues with the remainder, so every input record comes out once, in
\* input order, under its own identifier.
C7_SinglePassInOrder ==
    /\ pulls = [i \in 1..Len(pulls) |-> i]
    /\ Len(pulls) <= Len(reads)
    /\ (pc = "predicting" /\ chunks = <<>>) => Len(pulls) <= n
    /\ pc = "predicting" => Ids(Predicted \o buffered) = Ids(Take(reads, Len(pulls)))
    /\ pc = "done" => Ids(result) = Ids(reads)
C7_Witness ==
    /\ pc = "done" /\ read_orientation = "unset" /\ flip
    /\ n > 1 /\ Len(reads) > n

\* C8: under a threshold t > 0 every label is 'Unassigned' or a rank-prefix
\* of the predicted lineage whose deepest rank has running confidence >= t,
\* and it is 'Unassigned' exactly when no rank reaches t.
C8_ThresholdedLabels ==
    (pc = "done" /\ confidence > 0) =>
        \A i \in 1..Len(result) :
            LET p == classifier[Predicted[i].seq]
                meets == {d \in 1..NumRanks : p.conf[d] >= confidence}
            IN  /\ (result[i].taxon = Unassigned) <=> (meets = {})
                /\ result[i].taxon # Unassigned =>
                       \E d \in meets : result[i].taxon = Take(p.taxon, d)
C8_Witness ==
    /\ pc = "done" /\ confidence > 0
    /\ \E i \in 1..Len(result) : result[i].taxon = Unassigned
    /\ \E i \in 1..Len(result) :
           /\ result[i].taxon # Unassigned
           /\ Len(result[i].taxon) < NumRanks
           /\ classifier[Predicted[i].seq].conf[NumRanks] < confidence

\* C9: with read_orientation unset the detector makes exactly two trial
\* predictions, on the first min(n, length) reads as they are and
\* reverse-complemented, both with confidence 0 whatever the caller's
\* threshold; the whole stream is then predicted unchanged when the median
\* confidence difference is strictly positive and reverse-complemented
\* otherwise (zero included). With 'same' or 'reverse-complement' there is
\* no trial prediction.
C9_DetectionRule ==
    (pc \in {"predicting", "done"}) =>
        /\ read_orientation = "unset" =>
               /\ trials = << [reads |-> Take(reads, n), confidence |-> 0],
                              [reads |-> ReverseAll(Take(reads, n)), confidence |-> 0] >>
               /\ flip = ~(SampleMedian2 > 0)
        /\ read_orientation = "same" => (trials = <<>> /\ ~flip)
        /\ read_orientation = "reverse-complement" => (trials = <<>> /\ flip)
        /\ pc = "done" => Predicted = (IF flip THEN ReverseAll(reads) ELSE reads)
C9_Witness ==
    /\ pc = "done" /\ read_orientation = "unset" /\ SampleMedian2 = 0
    /\ Len(reads) > n /\ confidence = Scale

\* ======================================================================
\* Spec Codec, Class Resolver, Signature Deriver
\* ======================================================================
\* Python values, tagged by kind. Each is a record whose one field names its
\* kind. A dotted name such as a '__type__' tag is kept split at its dots
\* ("tag"); a float is kept in hundredths.
VNone == [none |-> 0]
VBool(b) == [bool |-> b]
VInt(i) == [int |-> i]
VFloat(h) == [float |-> h]
VStr(s) == [str |-> s]
VTag(path) == [tag |-> path]
VList(xs) == [list |-> xs]
VTuple(xs) == [tuple |-> xs]
VDict(f) == [dict |-> f]
VOpaque(s) == [opaque |-> s]
VEst(c, ps) == [est |-> [cls |-> c, params |-> ps]]
VClass(c) == [class |-> c]
\* A raised exception: its type and the pieces of its message.
VError(type, about) == [error |-> [type |-> type, about |-> about]]
Unset == [unset |-> 0]
Kind(v) == CHOOSE k \in DOMAIN v : TRUE
Val(v) == v[Kind(v)]

Scalars == {"none", "bool", "int", "float", "str", "tag"}
IsError(v) == Kind(v) = "error"
Front(s) == SubSeq(s, 1, Len(s) - 1)
Restrict(f, K) == [k \in K |-> f[k]]
\* The first failure among converted children, if any.
SeqError(xs) == xs[CHOOSE i \in 1..Len(xs) : IsError(xs[i]) /\ \A j \in 1..(i - 1) : ~IsError(xs[j])]
MapError(f) == f[CHOOSE k \in DOMAIN f : IsError(f[k])]

\* ------------------------------------------------ the estimator library
\* Estimator classes of the trusted library and of the custom namespace:
\* defining package and module, constructor defaults, required arguments.
HashingVectorizer ==
    [package |-> "sklearn", module |-> <<"feature_extraction", "text">>,
     name |-> "HashingVectorizer", required |-> {},
     defaults |-> [analyzer |-> VStr("word"), n_features |-> VInt(1048576),
                   ngram_range |-> VTuple(<<VInt(1), VInt(1)>>),
                   non_negative |-> VBool(FALSE),
                   dtype |-> VOpaque("numpy.float64")]]
MultinomialNB ==
    [package |-> "sklearn", module |-> <<"naive_bayes">>,
     name |-> "MultinomialNB", required |-> {},
     defaults |-> [alpha |-> VFloat(100), fit_prior |-> VBool(TRUE),
                   class_prior |-> VNone]]
OneVsRestClassifier ==
    [package |-> "sklearn", module |-> <<"multiclass">>,
     name |-> "OneVsRestClassifier", required |-> {"estimator"},
     defaults |-> [n_jobs |-> VInt(1)]]
ChunkedHashingVectorizer ==
    [package |-> "q2_feature_classifier", module |-> <<"custom">>,
     name |-> "ChunkedHashingVectorizer", required |-> {},
     defaults |-> [n_features |-> VInt(1048576), chunk_size |-> VNone]]
EstimatorClasses ==
    {HashingVectorizer, MultinomialNB, OneVsRestClassifier, ChunkedHashingVectorizer}
ClassNamed(c) == CHOOSE k \in EstimatorClasses : k.name = c

\* Submodules of the library (<<"">> is the library itself) and, of these,
\* the packages; other names a module exports: classes that are no
\* estimators, and objects that are no classes.
SklearnModules ==
    {<<"">>, <<"base">>, <<"multiclass">>, <<"naive_bayes">>,
     <<"feature_extraction">>, <<"feature_extraction", "text">>}
SklearnPackages == {<<"">>, <<"feature_extraction">>}
OtherClasses == {<<"naive_bayes", "ABCMeta">>, <<"custom", "islice">>}
NonClasses == {<<"naive_bayes", "np">>, <<"base", "clone">>, <<"", "clone">>}

\* hasattr / getattr on the imported module, then what issubclass meets.
ModuleAttr(module, klass) ==
    IF \E k \in EstimatorClasses : k.module = module /\ k.name = klass THEN "estimator"
    ELSE IF module \o <<klass>> \in OtherClasses THEN "class"
    ELSE IF module \o <<klass>> \in NonClasses THEN "object"
    ELSE "absent"

\* importlib.util.find_spec('.' + module, 'sklearn'): the parent of a dotted
\* name is imported first, which raises when it is missing or no package.
find_spec(module) ==
    IF module \in SklearnModules THEN "spec"
    ELSE IF Len(module) > 1 /\ Front(module) \notin SklearnPackages THEN "ImportError"
    ELSE "None"

\* issubclass(klass, sklearn.base.BaseEstimator) raises on a non-class.
issubclass(attr) ==
    IF attr = "object" THEN "TypeError"
    ELSE IF attr = "estimator" THEN "True" ELSE "False"

\* ------------------------------------------------------------ _load_class
\* classname + ' is not a recognised class'
NotRecognised(classname) == VError("ValueError", classname \o <<" is not a recognised class">>)
load_class(classname) ==
    LET err_message == NotRecognised(classname)
        module == Front(classname)
        klass == Last(classname)
        found == IF module = <<"custom">> THEN "spec" ELSE find_spec(module)
        attr == ModuleAttr(module, klass)
    IN  IF Len(classname) < 2 THEN err_message
        ELSE IF found = "ImportError" THEN VError("ImportError", classname)
        ELSE IF found = "None" THEN err_message
        ELSE IF attr = "absent" THEN err_message
        ELSE IF issubclass(attr) = "TypeError" THEN VError("TypeError", classname)
        ELSE IF issubclass(attr) = "False" THEN err_message
        ELSE VClass(klass)

\* klass(**kwargs): the constructor binds keywords over its defaults.
construct(c, kwargs) ==
    LET k == ClassNamed(c)
    IN  IF ~(DOMAIN kwargs \subseteq (DOMAIN k.defaults \cup k.required))
           \/ ~(k.required \subseteq DOMAIN kwargs)
        THEN VError("TypeError", <<c>>)
        ELSE VEst(c, [a \in DOMAIN k.defaults \cup k.required |->
                         IF a \in DOMAIN kwargs THEN kwargs[a] ELSE k.defaults[a]])

\* --------------------------------------------------------- pipeline_from_spec
\* as_steps, the object_hook: a mapping holding '__type__' becomes an object.
as_steps(obj) ==
    IF "__type__" \in DOMAIN obj THEN
        LET klass == load_class(Val(obj["__type__"]))
        IN  IF IsError(klass) THEN klass
            ELSE construct(Val(klass), Restrict(obj, DOMAIN obj \ {"__type__"}))
    ELSE VDict(obj)

\* json.loads(json.dumps(spec), object_hook=hook): tuples come back as
\* lists, what json cannot write raises, mappings pass through the hook
\* innermost first.
RECURSIVE json_reload(_, _)
json_reload(v, hooked) ==
    CASE Kind(v) \in Scalars -> v
      [] Kind(v) \in {"list", "tuple"} ->
            LET xs == [i \in 1..Len(Val(v)) |-> json_reload(Val(v)[i], hooked)]
            IN  IF \E i \in 1..Len(xs) : IsError(xs[i]) THEN SeqError(xs) ELSE VList(xs)
      [] Kind(v) = "dict" ->
            LET f == [k \in DOMAIN Val(v) |-> json_reload(Val(v)[k], hooked)]
            IN  IF \E k \in DOMAIN f : IsError(f[k]) THEN MapError(f)
                ELSE IF hooked THEN as_steps(f) ELSE VDict(f)
      [] OTHER -> VError("TypeError", <<Kind(v)>>)

\* Pipeline(steps)
Pipeline(steps) == VEst("Pipeline", [steps |-> steps, memory |-> VNone])
pipeline_from_spec(spec) ==
    LET steps == json_reload(spec, TRUE)
    IN  IF IsError(steps) THEN steps ELSE Pipeline(steps)

\* ------------------------------------------------------------- get_params
\* get_params(deep=True): own parameters, plus every parameter of a nested
\* estimator under '<name>__'; a Pipeline also lists its named steps. A
\* parameter name is kept split at its '__' separators.
NamedSteps(e) ==
    IF Val(e).cls = "Pipeline"
    THEN {<<Val(Val(st)[1]), Val(st)[2]>> : st \in Range(Val(Val(e).params["steps"]))}
    ELSE {}
RECURSIVE get_params(_)
get_params(e) ==
    LET own == Val(e).params
        nested == {<<k, own[k]>> : k \in {a \in DOMAIN own : Kind(own[a]) = "est"}}
                      \cup {c \in NamedSteps(e) : Kind(c[2]) = "est"}
        child(name) == (CHOOSE c \in nested : c[1] = name)[2]
        keys == {<<k>> : k \in DOMAIN own} \cup {<<c[1]>> : c \in NamedSteps(e)}
                    \cup UNION {{<<c[1]>> \o q : q \in DOMAIN get_params(c[2])} : c \in nested}
    IN  [p \in keys |->
            IF Len(p) > 1 THEN get_params(child(p[1]))[Tail(p)]
            ELSE IF p[1] \in DOMAIN own THEN own[p[1]]
            ELSE (CHOOSE c \in NamedSteps(e) : c[1] = p[1])[2]]

\* '__'.join
RECURSIVE JoinKey(_)
JoinKey(p) == IF Len(p) = 1 THEN p[1] ELSE p[1] \o "__" \o JoinKey(Tail(p))

\* ------------------------------------------------------- spec_from_pipeline
\* module + '.' + class name, minus the top package
type_tag_WithPackage(obj) ==
    LET k == ClassNamed(Val(obj).cls) IN VTag(<<k.package>> \o k.module \o <<k.name>>)
type_tag(obj) ==
    LET k == ClassNamed(Val(obj).cls) IN VTag(k.module \o <<k.name>>)

\* key.startswith(so), so being a nested estimator's name plus '__'
StartsWith(key, so) == Len(key) > Len(so) /\ SubSeq(key, 1, Len(so)) = so

RECURSIVE StepsEncoder_default(_), Serializable(_)
\* json.dumps(value, cls=StepsEncoder) raises no TypeError
Serializable(v) ==
    CASE Kind(v) \in Scalars -> TRUE
      [] Kind(v) \in {"list", "tuple"} -> \A i \in 1..Len(Val(v)) : Serializable(Val(v)[i])
      [] Kind(v) = "dict" -> \A k \in DOMAIN Val(v) : Serializable(Val(v)[k])
      [] Kind(v) = "est" ->
            LET d == Val(StepsEncoder_default(v))
            IN  \A k \in DOMAIN d : Serializable(d[k])
      [] OTHER -> FALSE

\* Which parameters StepsEncoder.default keeps (lines 57-68).
KeptParams_NoPrefixRule(params) ==
    {key \in DOMAIN params : Kind(params[key]) = "est" \/ Serializable(params[key])}
KeptParams(params) ==
    LET subobjs == {key \in DOMAIN params : Kind(params[key]) = "est"}
    IN  {key \in DOMAIN params :
            /\ ~\E so \in subobjs : StartsWith(key, so)
            /\ Kind(params[key]) = "est" \/ Serializable(params[key])}

StepsEncoder_default(obj) ==
    LET params == get_params(obj)
        kept == KeptParams(params)
        keyOf(name) == CHOOSE key \in kept : JoinKey(key) = name
    IN  VDict([name \in {JoinKey(key) : key \in kept} \cup {"__type__"} |->
                  IF name = "__type__" THEN type_tag(obj)
                  ELSE IF Kind(params[keyOf(name)]) = "est" /\ ~Serializable(params[keyOf(name)])
                  THEN StepsEncoder_default(params[keyOf(name)])
                  ELSE params[keyOf(name)]])

\* json.loads(json.dumps(steps, cls=StepsEncoder))
RECURSIVE steps_encode(_)
steps_encode(v) ==
    CASE Kind(v) \in Scalars -> v
      [] Kind(v) \in {"list", "tuple"} ->
            LET xs == [i \in 1..Len(Val(v)) |-> steps_encode(Val(v)[i])]
            IN  IF \E i \in 1..Len(xs) : IsError(xs[i]) THEN SeqError(xs) ELSE VList(xs)
      [] Kind(v) = "dict" ->
            LET f == [k \in DOMAIN Val(v) |-> steps_encode(Val(v)[k])]
            IN  IF \E k \in DOMAIN f : IsError(f[k]) THEN MapError(f) ELSE VDict(f)
      [] Kind(v) = "est" -> steps_encode(StepsEncoder_default(v))
      [] OTHER -> VError("TypeError", <<Kind(v)>>)

spec_from_pipeline(pipeline) == steps_encode(get_params(pipeline)[<<"steps">>])

\* ------------------------------------------------------ _pipeline_signature
\* json.dumps(default), without the encoder, raises no TypeError
PlainSerializable(v) ==
    /\ Kind(v) \in Scalars \cup {"list", "tuple"}
    /\ Kind(v) \in {"list", "tuple"} => \A i \in 1..Len(Val(v)) : Kind(Val(v)[i]) \in Scalars

\* repr of a float kept in hundredths
FloatText(h) ==
    ToString(h \div 100) \o "." \o
        (IF h % 10 = 0 THEN ToString((h % 100) \div 10)
         ELSE IF h % 100 < 10 THEN "0" \o ToString(h % 100) ELSE ToString(h % 100))
RECURSIVE JoinTexts(_)
JoinTexts(ts) ==
    IF ts = <<>> THEN "" ELSE IF Len(ts) = 1 THEN ts[1] ELSE ts[1] \o ", " \o JoinTexts(Tail(ts))
\* json.dumps: the JSON text of a value
RECURSIVE json_dumps(_)
json_dumps(v) ==
    CASE Kind(v) = "none" -> "null"
      [] Kind(v) = "bool" -> IF Val(v) THEN "true" ELSE "false"
      [] Kind(v) = "int" -> ToString(Val(v))
      [] Kind(v) = "float" -> FloatText(Val(v))
      [] Kind(v) = "str" -> "\"" \o Val(v) \o "\""
      [] Kind(v) \in {"list", "tuple"} ->
            "[" \o JoinTexts([i \in 1..Len(Val(v)) |-> json_dumps(Val(v)[i])]) \o "]"

\* json.loads: the value a text is the JSON text of, among the values the
\* model's texts can denote; any other text is a JSONDecodeError.
JsonInts == {1, 8, 8192, 1048576}
JsonAtoms ==
    {VNone, VBool(TRUE), VBool(FALSE), VFloat(1), VFloat(100), VStr("word"), VStr("char_wb")}
        \cup {VInt(i) : i \in JsonInts}
JsonValues == JsonAtoms \cup {VList(xs) : xs \in [1..2 -> {VInt(i) : i \in JsonInts}]}
Parses(text) == \E v \in JsonValues : json_dumps(v) = text
json_loads(text) == CHOOSE v \in JsonValues : json_dumps(v) = text

\* type_map and the derived signature: parameter -> annotation and default
pipeline_signature(spec) ==
    LET pipeline == pipeline_from_spec(spec)
        params == get_params(pipeline)
        kept == {param \in DOMAIN params : PlainSerializable(params[param])}
    IN  IF IsError(pipeline) THEN pipeline
        ELSE VDict([param \in kept |->
                LET default == params[param]
                IN  IF Kind(default) \in {"int", "float", "bool", "str"}
                    THEN [annotation |-> Kind(default), default |-> default]
                    ELSE [annotation |-> "str", default |-> VStr(json_dumps(default))]])

\* ------------------------------------------------------------ generic_fitter
\* kwargs[param] = json.loads(kwargs[param]), kept as it is when that raises
\* JSONDecodeError (no JSON text) or TypeError (no string)
decode_kwarg_Verbatim(value) == value
decode_kwarg(value) ==
    IF Kind(value) = "str" /\ Parses(Val(value)) THEN json_loads(Val(value)) ELSE value

\* set_params(**kwargs): '<name>__<rest>' goes to the nested estimator
RECURSIVE set_params(_, _)
set_params(e, kwargs) ==
    LET own == Val(e).params
        deep == {p \in DOMAIN kwargs : Len(p) > 1}
        sub(name) == [q \in {Tail(p) : p \in {r \in deep : r[1] = name}} |->
                          kwargs[<<name>> \o q]]
        targeted(name) == \E p \in deep : p[1] = name
        valid == {k[1] : k \in {p \in DOMAIN get_params(e) : Len(p) = 1}}
        step(st) == IF targeted(Val(Val(st)[1]))
                    THEN VList(<<Val(st)[1], set_params(Val(st)[2], sub(Val(Val(st)[1])))>>)
                    ELSE st
        value(k) == IF <<k>> \in DOMAIN kwargs THEN kwargs[<<k>>]
                    ELSE IF Val(e).cls = "Pipeline" /\ k = "steps"
                    THEN VList([i \in 1..Len(Val(own[k])) |-> step(Val(own[k])[i])])
                    ELSE IF targeted(k) THEN set_params(own[k], sub(k))
                    ELSE own[k]
    IN  IF \E p \in DOMAIN kwargs : p[1] \notin valid THEN VError("ValueError", <<"Invalid parameter">>)
        ELSE VEst(Val(e).cls, [k \in DOMAIN own |-> value(k)])

\* The wrapper called with the given keyword values (lines 217-229), up to
\* the pipeline it hands to fit_pipeline.
generic_fitter(spec, kwargs) ==
    LET decoded == [param \in DOMAIN kwargs |-> decode_kwarg(kwargs[param])]
        pipeline == pipeline_from_spec(spec)
    IN  IF IsError(pipeline) THEN pipeline ELSE set_params(pipeline, decoded)

\* fit_classifier_sklearn on json.dumps(spec) (lines 102-104), up to the
\* pipeline it hands to fit_pipeline.
fit_classifier_sklearn(spec) ==
    LET loaded == json_reload(spec, FALSE)
    IN  IF IsError(loaded) THEN loaded ELSE pipeline_from_spec(loaded)

\* ------------------------------------------------------------ the specs tried
Node(tag, params) ==
    VDict([k \in DOMAIN params \cup {"__type__"} |->
              IF k = "__type__" THEN VTag(tag) ELSE params[k]])
Empty == [k \in {} |-> VNone]
PipelineSpecOf(feat, classify) ==
    VList(<<VList(<<VStr("feat_ext"), feat>>), VList(<<VStr("classify"), classify>>)>>)

\* The built-in catalog: the naive Bayes classifier on hashed k-mers.
CatalogFeatParams ==
    [analyzer |-> VStr("char_wb"), n_features |-> VInt(8192),
     ngram_range |-> VList(<<VInt(8), VInt(8)>>), non_negative |-> VBool(TRUE)]
CatalogClassifyParams == [alpha |-> VFloat(1), fit_prior |-> VBool(FALSE)]
HVTag == <<"feature_extraction", "text", "HashingVectorizer">>
NBTag == <<"naive_bayes", "MultinomialNB">>
specific_fitters ==
    {<<"naive_bayes", PipelineSpecOf(Node(HVTag, CatalogFeatParams),
                                     Node(NBTag, CatalogClassifyParams))>>}
Catalog == {f[2] : f \in specific_fitters}

\* Other specs a caller may hand in: any subset of the catalog's overrides, a
\* string that is itself JSON text, the custom namespace, a nested
\* estimator, wrong keywords, and tags the resolver must refuse.
FeatNodes ==
    {Node(HVTag, Restrict(CatalogFeatParams, K)) : K \in SUBSET DOMAIN CatalogFeatParams}
        \cup {Node(HVTag, [analyzer |-> VStr("8")]),
              Node(<<"custom", "ChunkedHashingVectorizer">>, Empty)}
NBNodes ==
    {Node(NBTag, Restrict(CatalogClassifyParams, K)) : K \in SUBSET DOMAIN CatalogClassifyParams}
RefusedTags ==
    {<<"MultinomialNB">>, <<"os", "system">>, <<"naive_bayes", "NoSuchClass">>,
     <<"naive_bayes", "ABCMeta">>, <<"naive_bayes", "np">>, <<"base", "clone">>,
     <<"", "clone">>, <<"nonexistent", "sub", "Thing">>,
     <<"custom", "NoSuchClass">>, <<"custom", "islice">>}
ClassifyNodes ==
    NBNodes
        \cup {Node(<<"multiclass", "OneVsRestClassifier">>, [estimator |-> nb]) : nb \in NBNodes}
        \cup {Node(<<"multiclass", "OneVsRestClassifier">>, Empty),
              Node(NBTag, [bogus |-> VInt(1)])}
        \cup {Node(t, Empty) : t \in RefusedTags}
PipelineSpecs == {PipelineSpecOf(f, c) : f \in FeatNodes, c \in ClassifyNodes}

\* ------------------------------------------------------------------ actions
ClassifyIdle ==
    /\ reads = <<>> /\ classifier = <<>> /\ n = 1 /\ read_orientation = "unset"
    /\ chunk_size = 1 /\ n_jobs = 1 /\ confidence = 0
    /\ pc = "idle" /\ pulls = <<>> /\ buffered = <<>> /\ flip = FALSE
    /\ trials = <<>> /\ chunks = <<>> /\ results = <<>> /\ completed = <<>>
    /\ result = <<>> /\ error = ""

InitCodec ==
    /\ cspec \in PipelineSpecs
    /\ cstage = "new"
    /\ pipe_one = Unset /\ spec_one = Unset /\ pipe_two = Unset /\ spec_two = Unset
    /\ generic_pipe = Unset /\ specific_pipe = Unset /\ signature = Unset
    /\ ClassifyIdle

\* test_pipeline_serialisation: inflate, deflate, inflate, deflate
Inflate ==
    /\ cstage = "new"
    /\ pipe_one' = pipeline_from_spec(cspec)
    /\ cstage' = IF IsError(pipe_one') THEN "refused" ELSE "inflated"
    /\ UNCHANGED <<cspec, spec_one, pipe_two, spec_two, generic_pipe,
                   specific_pipe, signature, classify_vars>>
Deflate ==
    /\ cstage = "inflated"
    /\ spec_one' = spec_from_pipeline(pipe_one)
    /\ cstage' = IF IsError(spec_one') THEN "raised" ELSE "deflated"
    /\ UNCHANGED <<cspec, pipe_one, pipe_two, spec_two, generic_pipe,
                   specific_pipe, signature, classify_vars>>
Reinflate ==
    /\ cstage = "deflated"
    /\ pipe_two' = pipeline_from_spec(spec_one)
    /\ cstage' = IF IsError(pipe_two') THEN "raised" ELSE "reinflated"
    /\ UNCHANGED <<cspec, pipe_one, spec_one, spec_two, generic_pipe,
                   specific_pipe, signature, classify_vars>>
Redeflate ==
    /\ cstage = "reinflated"
    /\ spec_two' = spec_from_pipeline(pipe_two)
    /\ cstage' = IF IsError(spec_two') THEN "raised" ELSE "round_trip"
    /\ UNCHANGED <<cspec, pipe_one, spec_one, pipe_two, generic_pipe,
                   specific_pipe, signature, classify_vars>>

\* _register_fitter, then test_fit_specific_classifiers: the dedicated
\* operation called with its derived defaults, and the generic one.
DefaultKwargs(sig) == [param \in DOMAIN Val(sig) |-> Val(sig)[param].default]
Register ==
    /\ cstage = "new"
    /\ signature' = pipeline_signature(cspec)
    /\ cstage' = IF IsError(signature') THEN "refused" ELSE "registered"
    /\ UNCHANGED <<cspec, pipe_one, spec_one, pipe_two, spec_two, generic_pipe,
                   specific_pipe, classify_vars>>
FitSpecific ==
    /\ cstage = "registered"
    /\ specific_pipe' = generic_fitter(cspec, DefaultKwargs(signature))
    /\ cstage' = "fitted_specific"
    /\ UNCHANGED <<cspec, pipe_one, spec_one, pipe_two, spec_two, generic_pipe,
                   signature, classify_vars>>
FitGeneric ==
    /\ cstage = "fitted_specific"
    /\ generic_pipe' = fit_classifier_sklearn(cspec)
    /\ cstage' = "fitted"
    /\ UNCHANGED <<cspec, pipe_one, spec_one, pipe_two, spec_two, specific_pipe,
                   signature, classify_vars>>

CodecNext ==
    \/ Inflate \/ Deflate \/ Reinflate \/ Redeflate
    \/ Register \/ FitSpecific \/ FitGeneric

SpecCodec == InitCodec /\ [][CodecNext]_vars

\* ------------------------------------------------------ claims on the codec
StepNodes(spec) == [i \in 1..Len(Val(spec)) |-> Val(Val(spec)[i])[2]]
StepEstimators(pipeline) ==
    LET steps == Val(Val(pipeline).params["steps"])
    IN  [i \in 1..Len(steps) |-> Val(steps[i])[2]]
ClassifyTag(spec) == Val(Val(StepNodes(spec)[2])["__type__"])

\* C1: every spec of the built-in catalog decodes, and encoding then decoding
\* reaches a fixed point after one round trip: the second encoding equals the
\* first, and neither the re-decoding nor the re-encoding raises. The same
\* holds of every other spec that decodes.
C1_RoundTripFixedPoint ==
    /\ cspec \in Catalog => cstage # "refused"
    /\ Kind(spec_one) # "unset" => ~IsError(spec_one)
    /\ Kind(pipe_two) # "unset" => ~IsError(pipe_two)
    /\ Kind(spec_two) # "unset" => spec_two = spec_one
\* C1: the catalog's spec has gone round; its first encoding differs from the
\* spec itself, and the pipeline holds a parameter the encoding dropped.
C1_Witness ==
    /\ cstage = "round_trip"
    /\ cspec \in Catalog
    /\ spec_two = spec_one
    /\ spec_one # cspec
    /\ <<"feat_ext", "dtype">> \in DOMAIN get_params(pipe_two)
    /\ "dtype" \notin DOMAIN Val(StepNodes(spec_two)[1])

\* A tag that fails one of the resolver's checks (a) to (e).
ViolatesResolverCheck(tag) ==
    \/ Len(tag) < 2
    \/ Front(tag) # <<"custom">> /\ Front(tag) \notin SklearnModules
    \/ ~\E k \in EstimatorClasses : k.module = Front(tag) /\ k.name = Last(tag)
\* C2: decoding a spec whose tag violates a resolver check fails with the one
\* uniform '<tag> is not a recognised class' ValueError, whichever check it
\* violates, and constructs nothing.
C2_UniformRefusal ==
    (Kind(pipe_one) # "unset" /\ ViolatesResolverCheck(ClassifyTag(cspec)))
        => pipe_one = NotRecognised(ClassifyTag(cspec))

\* C6: for every catalog entry, the dedicated operation called with its
\* derived defaults hands fit_pipeline the same pipeline as
\* fit_classifier_sklearn does on the entry's spec, and each derived default,
\* once decoded by the wrapper, is the value the spec-built pipeline has.
C6_SpecificEqualsGeneric ==
    cspec \in Catalog =>
        /\ cstage # "refused"
        /\ cstage = "fitted" =>
              /\ ~IsError(specific_pipe)
              /\ specific_pipe = generic_pipe
              /\ \A param \in DOMAIN Val(signature) :
                    decode_kwarg(Val(signature)[param].default)
                        = get_params(generic_pipe)[param]
\* C6: a catalog entry fitted both ways, one of whose defaults went through
\* the signature as JSON text.
C6_Witness ==
    /\ cstage = "fitted"
    /\ cspec \in Catalog
    /\ Val(signature)[<<"feat_ext", "ngram_range">>].default = VStr("[8, 8]")
    /\ get_params(specific_pipe)[<<"feat_ext", "ngram_range">>] = VList(<<VInt(8), VInt(8)>>)
    /\ Val(signature)[<<"classify", "class_prior">>].default = VStr("null")
    /\ get_params(specific_pipe)[<<"classify", "class_prior">>] = VNone

\* A node encodes an estimator: its keys are '__type__' and the estimator's
\* own parameters that hold a JSON value or an estimator; the tag is the
\* class's module below the top package, then its name; a JSON value is kept
\* and an estimator is again such a node.
RECURSIVE Encodes(_, _)
Encodes(node, e) ==
    LET own == Val(e).params
        k == ClassNamed(Val(e).cls)
        keep == {a \in DOMAIN own : Kind(own[a]) = "est" \/ PlainSerializable(own[a])}
    IN  /\ Kind(node) = "dict"
        /\ DOMAIN Val(node) = keep \cup {"__type__"}
        /\ Val(node)["__type__"] = VTag(k.module \o <<k.name>>)
        /\ \A a \in keep :
              IF Kind(own[a]) = "est" THEN Encodes(Val(node)[a], own[a])
              ELSE Val(node)[a] = json_reload(own[a], FALSE)
EncodesSteps(spec, pipeline) ==
    /\ Len(Val(spec)) = Len(StepEstimators(pipeline))
    /\ \A i \in 1..Len(Val(spec)) : Encodes(StepNodes(spec)[i], StepEstimators(pipeline)[i])
\* C10: encoding a pipeline of recognised estimators never raises, and each
\* encoded node holds exactly the '__type__' tag and the estimator's own
\* parameters whose value is JSON-serializable or an estimator, the latter
\* encoded as a node in turn; parameters under a nested estimator's prefix
\* and non-serializable values are left out.
C10_EncodedNodes ==
    /\ cstage # "raised"
    /\ Kind(spec_one) # "unset" => EncodesSteps(spec_one, pipe_one)
    /\ Kind(spec_two) # "unset" => EncodesSteps(spec_two, pipe_two)
\* C10: an encoded pipeline whose classifier wraps a nested estimator, with
\* the nested estimator's parameters reachable under its prefix and a
\* non-serializable dtype on the feature extractor.
C10_Witness ==
    /\ cstage = "deflated"
    /\ <<"classify", "estimator", "alpha">> \in DOMAIN get_params(pipe_one)
    /\ Kind(Val(StepNodes(spec_one)[2])["estimator"]) = "dict"
    /\ "alpha" \in DOMAIN Val(Val(StepNodes(spec_one)[2])["estimator"])
    /\ DOMAIN Val(StepNodes(spec_one)[2]) = {"__type__", "estimator", "n_jobs"}
    /\ "dtype" \in DOMAIN Val(StepEstimators(pipe_one)[1]).params
    /\ ~Serializable(Val(StepEstimators(pipe_one)[1]).params["dtype"])
    /\ "dtype" \notin DOMAIN Val(StepNodes(spec_one)[1])

====
